---- MODULE Spec2Model ----
(***************************************************************************)
(* Model of the competitor-monitor pipeline: scrape_competitor_website,    *)
(* save_products_to_database and analyze_price_changes                     *)
(* (competitors/scraper.py) over the tables of competitors/models.py and   *)
(* alerts/models.py, together with the views that write to those tables.   *)
(*                                                                         *)
(* A pipeline request is served by a worker of DOMAIN w; each database    *)
(* statement of a pipeline function is one step (no function of the        *)
(* pipeline opens a transaction), and the other views, one statement      *)
(* each, interleave with those steps.                                      *)
(*                                                                         *)
(* Fault model: a statement inside a try block that performs I/O (the page *)
(* fetch, a database write) either succeeds or raises; statements outside  *)
(* any try block and statements of except handlers take their normal path. *)
(* A competitor or user is deleted only while no pipeline run of that      *)
(* competitor is in flight.                                                *)
(*                                                                         *)
(* Specifications:                                                         *)
(*   Spec        the pipeline and the views, one worker;                   *)
(*   SpecRace    two concurrent runs of save_products_to_database for one  *)
(*               competitor;                                               *)
(*   SpecBatch   split_into_batches (utils/dom_cleaner.py);                *)
(*   SpecExtract extract_products_with_llm (utils/llm_processor.py) and    *)
(*               extract_products_with_small_llm                           *)
(*               (utils2/small_llm_processor.py).                          *)
(*   SpecPrompt  the part of a batch those two put into the request;       *)
(*   SpecAuth    the views of auth_app, one browser session;               *)
(*   SpecSignup  two browser sessions signing up at once.                  *)
(***************************************************************************)
EXTENDS Integers, Sequences, FiniteSets, TLC

\* ---------------------------------------------------------------- bounds
\* requests served in all, and records extracted in all
MaxRequests == 3
MaxRecords == 2
MaxBatches == 3
\* longest text and largest max_chars given to split_into_batches
MaxLen == 7
MaxChars == 6
\* most product entries and most promotions in one model response
MaxEntries == 2
MaxPromos == 2
\* longest chain of requests a browser follows
MaxRedirects == 4

Workers == {1}
Users == {"u1"}

NULL == 0

\* index of the only batch handed to extraction (0-based)
BatchIndex == 2

\* thresholds of the price analysis, in percent
PriceThreshold == 5
HighThreshold == 15

VARIABLES users, competitors, sessions, products, priceHistory, alerts,
          clock, w, nRequests, nRecords

vars == <<users, competitors, sessions, products, priceHistory, alerts,
          clock, w, nRequests, nRecords>>

counters == <<nRequests, nRecords>>

tables == <<users, competitors, sessions, products, priceHistory, alerts>>

\* ------------------------------------------------------- extracted records
\* A validated ProductExtraction as handed to the reconciler.
ProductExtraction ==
    {[product_identifier |-> v[1], name |-> v[2], price |-> v[3]] :
        v \in {<<"SKU1", "A", 100>>, <<"SKU1", "B", 80>>, <<"SKU2", "A", 100>>}}

RecordLists == UNION {[1..n -> ProductExtraction] : n \in 0..MaxRecords}

\* ------------------------------------------------------------ worker state
NoCompetitor == [id |-> NULL, user |-> "", is_active |-> FALSE, last_scraped_at |-> NULL]
NoSession == [id |-> NULL, competitor |-> NULL, status |-> "", products_found |-> 0,
              errors |-> "", raw_html |-> ""]
NoResult == [kind |-> "none", success |-> FALSE, error |-> "", products_found |-> 0,
             session_id |-> NULL, alerts_created |-> 0]

Idle == [pc |-> "idle", competitor |-> NoCompetitor, session |-> NoSession,
         nbatches |-> 0, submitted |-> <<>>,
         all_products |-> <<>>, i |-> 0, count |-> 0, product |-> NULL,
         skipped |-> <<>>,
         exc |-> "", todo |-> <<>>, alerts_created |-> 0, log |-> <<>>,
         result |-> NoResult]

InFlight(cid) == \E p \in DOMAIN w : w[p].pc # "idle" /\ w[p].competitor.id = cid

\* ------------------------------------------------------------------ tables
CompetitorRow(cid) == CHOOSE c \in competitors : c.id = cid
SessionRow(sid) == CHOOSE s \in sessions : s.id = sid
ProductRow(pid) == CHOOSE x \in products : x.id = pid

\* Model.save() of a row that exists: every column takes the in-memory value.
SaveRow(table, row) == {r \in table : r.id # row.id} \cup {row}

Init ==
    /\ users = Users
    /\ competitors = {}
    /\ sessions = {}
    /\ products = {}
    /\ priceHistory = {}
    /\ alerts = {}
    /\ clock = 0
    /\ w = [p \in Workers |-> Idle]
    /\ nRequests = 0
    /\ nRecords = 0

\* ------------------------------------------------ scrape_competitor_website
\* A statement of the try block (lines 32-127) raises: control passes to the
\* except clause with the in-memory session as the statement left it.
Raise(p, sess, err) ==
    w' = [w EXCEPT ![p] = [@ EXCEPT !.pc = "except", !.session = sess, !.exc = err]]

\* The except clause without line 133.
FailedSessionNoPayload(sess, err) == [sess EXCEPT !.status = "failed"]

\* Lines 131-133: what the except clause assigns before saving.
FailedSession(sess, err) == [sess EXCEPT !.status = "failed", !.errors = err]

\* The except clause ending in raise: the session is marked failed and the
\* error leaves the function.
handle_exception_reraise(p) ==
    /\ w[p].pc = "except"
    /\ LET failed == FailedSession(w[p].session, w[p].exc) IN
       /\ sessions' = SaveRow(sessions, failed)
       /\ w' = [w EXCEPT ![p] = [@ EXCEPT !.pc = "raised", !.session = failed]]
    /\ UNCHANGED <<users, competitors, products, priceHistory, alerts, clock, counters>>

\* except Exception (lines 129-139): the session is marked failed with the
\* error text, saved, and the error returned.
handle_exception(p) ==
    /\ w[p].pc = "except"
    /\ LET failed == FailedSession(w[p].session, w[p].exc) IN
       /\ sessions' = SaveRow(sessions, failed)
       /\ w' = [w EXCEPT ![p] = [@ EXCEPT !.pc = "returned", !.session = failed,
                    !.result = [NoResult EXCEPT !.kind = "scrape", !.error = w[p].exc]]]
    /\ UNCHANGED <<users, competitors, products, priceHistory, alerts, clock, counters>>

\* Lines 19-30: look the competitor up, create the session.
scrape_start(p, cid) ==
    /\ w[p].pc = "idle"
    /\ nRequests < MaxRequests
    /\ nRequests' = nRequests + 1
    /\ IF \A c \in competitors : c.id # cid
       THEN /\ w' = [w EXCEPT ![p] = [@ EXCEPT !.pc = "returned",
                        !.result = [NoResult EXCEPT !.kind = "scrape",
                                       !.error = "Concurrent introuvable"]]]
            /\ UNCHANGED <<sessions, clock>>
       ELSE LET sess == [NoSession EXCEPT !.id = clock + 1, !.competitor = cid,
                                          !.status = "running"] IN
            /\ clock' = clock + 1
            /\ sessions' = sessions \cup {sess}
            /\ w' = [w EXCEPT ![p] = [@ EXCEPT !.pc = "fetch",
                        !.competitor = CompetitorRow(cid), !.session = sess]]
    /\ UNCHANGED <<users, competitors, products, priceHistory, alerts, nRecords>>

\* Lines 32-63: start the browser, load the page, read the body.
fetch_page(p) ==
    /\ w[p].pc = "fetch"
    /\ \/ /\ w' = [w EXCEPT ![p].pc = "save_raw"]
          /\ UNCHANGED sessions
       \/ /\ Raise(p, w[p].session, "fetch")
          /\ UNCHANGED sessions
    /\ UNCHANGED <<users, competitors, products, priceHistory, alerts, clock, counters>>

\* Lines 65-67: keep the raw markup on the session.
save_raw_html(p) ==
    /\ w[p].pc = "save_raw"
    /\ LET sess == [w[p].session EXCEPT !.raw_html = "html"] IN
       \/ /\ sessions' = SaveRow(sessions, sess)
          /\ w' = [w EXCEPT ![p] = [@ EXCEPT !.pc = "split", !.session = sess]]
       \/ /\ Raise(p, sess, "save")
          /\ UNCHANGED sessions
    /\ UNCHANGED <<users, competitors, products, priceHistory, alerts, clock, counters>>

\* Lines 71-79: clean the markup and split the text; nbatches is
\* len(batches).
split_text(p) ==
    /\ w[p].pc = "split"
    /\ \E nb \in 1..MaxBatches :
          w' = [w EXCEPT ![p] = [@ EXCEPT !.pc = "extract", !.nbatches = nb]]
    /\ UNCHANGED <<tables, clock, counters>>

\* Lines 81-95: i = 2, extract_products_with_llm(batches[i]). submitted
\* lists the indices of the batches handed to the extraction, in the order
\* of the calls. batches is not read after line 90 and is dropped here.
extract(p) ==
    /\ w[p].pc = "extract"
    /\ IF ~(BatchIndex < w[p].nbatches)
       THEN /\ w' = [w EXCEPT ![p] = [@ EXCEPT !.pc = "except", !.exc = "IndexError",
                         !.nbatches = 0]]
            /\ UNCHANGED nRecords
       ELSE \E recs \in RecordLists :
               /\ nRecords + Len(recs) <= MaxRecords
               /\ nRecords' = nRecords + Len(recs)
               /\ w' = [w EXCEPT ![p] = [@ EXCEPT !.all_products = recs, !.i = 1,
                         !.count = 0, !.nbatches = 0, !.submitted = <<BatchIndex>>,
                         !.pc = IF recs = <<>> THEN "finalize" ELSE "get_or_create"]]
    /\ UNCHANGED <<tables, clock, nRequests>>

\* ------------------------------------------------ save_products_to_database
\* break in place of continue: the loop is left after the record.
NextRecordBreak(p, cnt) ==
    [w[p] EXCEPT !.count = cnt, !.i = @ + 1, !.product = NULL, !.pc = "finalize"]

\* except Exception: ... continue (lines 189-191), and the loop's end.
NextRecord(p, cnt) ==
    [w[p] EXCEPT !.count = cnt, !.i = @ + 1, !.product = NULL,
                 !.pc = IF w[p].i < Len(w[p].all_products)
                        THEN "get_or_create" ELSE "finalize"]

\* except Exception as e: print(...); continue (lines 189-191): the record
\* is left, the error e logged, count as it was.
Skip(p, e) == [NextRecord(p, w[p].count) EXCEPT !.skipped = Append(@, e)]

\* create() in place of get_or_create(): the lookup never finds a row.
ExistingNeverFound(cid, ident) == {}

Existing(cid, ident) ==
    {x \in products : x.competitor = cid /\ x.product_identifier = ident}

\* update_or_create in place of get_or_create: the defaults overwrite the
\* row found.
FoundRowOverwritten(x, rec) == [x EXCEPT !.name = rec.name, !.current_price = rec.price]

\* get_or_create: the row found is returned as it is, the defaults are not
\* applied to it.
FoundRow(x, rec) == x

\* Product.objects.get_or_create(competitor, product_identifier, defaults),
\* its lookup: the row if there is one (created = False), else on to the
\* insert.
get_or_create(p) ==
    /\ w[p].pc = "get_or_create"
    /\ LET rec == w[p].all_products[w[p].i]
           found == Existing(w[p].competitor.id, rec.product_identifier) IN
       \/ /\ found # {}
          /\ products' = SaveRow(products, FoundRow(CHOOSE x \in found : TRUE, rec))
          /\ w' = [w EXCEPT ![p] = [@ EXCEPT !.product = (CHOOSE x \in found : TRUE).id,
                                             !.pc = "history"]]
       \/ /\ found = {}
          /\ w' = [w EXCEPT ![p].pc = "create"]
          /\ UNCHANGED products
       \/ /\ w' = [w EXCEPT ![p] = Skip(p, "DatabaseError")]
          /\ UNCHANGED products
    /\ UNCHANGED <<users, competitors, sessions, priceHistory, alerts, clock, counters>>

\* The insert losing to a concurrent one, its IntegrityError left to the
\* except clause of the loop.
RaceLostRaises(p, found) == Skip(p, "IntegrityError")

\* The insert losing to a concurrent one: unique_together (models.py 67)
\* refuses the second row and get_or_create returns the first, created =
\* False.
RaceLost(p, found) ==
    [w[p] EXCEPT !.product = (CHOOSE x \in found : TRUE).id, !.pc = "history"]

\* get_or_create, its insert after the lookup found no row.
create_product(p) ==
    /\ w[p].pc = "create"
    /\ LET rec == w[p].all_products[w[p].i]
           cid == w[p].competitor.id
           found == Existing(cid, rec.product_identifier)
           row == [id |-> clock + 1, competitor |-> cid,
                   product_identifier |-> rec.product_identifier,
                   name |-> rec.name, current_price |-> rec.price] IN
       \/ /\ found = {}
          /\ products' = products \cup {row}
          /\ clock' = clock + 1
          /\ w' = [w EXCEPT ![p] = [@ EXCEPT !.product = row.id, !.pc = "alert"]]
       \/ /\ found # {}
          /\ w' = [w EXCEPT ![p] = RaceLost(p, found)]
          /\ UNCHANGED <<products, clock>>
       \/ /\ w' = [w EXCEPT ![p] = Skip(p, "DatabaseError")]
          /\ UNCHANGED <<products, clock>>
    /\ UNCHANGED <<users, competitors, sessions, priceHistory, alerts, counters>>

\* if created: Alert.objects.create(alert_type='new_product', ...).
create_new_product_alert(p) ==
    /\ w[p].pc = "alert"
    /\ LET product == ProductRow(w[p].product)
           alert == [id |-> clock + 1, user |-> w[p].competitor.user,
                     competitor |-> w[p].competitor.id, product |-> product.id,
                     alert_type |-> "new_product", severity |-> "medium",
                     old_value |-> NULL, new_value |-> product.current_price,
                     is_read |-> FALSE] IN
       \/ /\ alerts' = alerts \cup {alert}
          /\ clock' = clock + 1
          /\ w' = [w EXCEPT ![p].pc = "history"]
       \/ /\ w' = [w EXCEPT ![p] = Skip(p, "DatabaseError")]
          /\ UNCHANGED <<alerts, clock>>
    /\ UNCHANGED <<users, competitors, sessions, products, priceHistory, counters>>

\* update_or_create(product=...) in place of create(): the product's
\* earlier rows are overwritten.
AppendPriceOverwriting(H, row) == {r \in H : r.product # row.product} \cup {row}

\* PriceHistory.objects.create: one more row, the others as they were.
AppendPrice(H, row) == H \cup {row}

\* PriceHistory.objects.create(...); count += 1.
create_price_history(p) ==
    /\ w[p].pc = "history"
    /\ LET rec == w[p].all_products[w[p].i]
           row == [id |-> clock + 1, product |-> w[p].product, price |-> rec.price,
                   scrape_session_id |-> w[p].session.id, recorded_at |-> clock + 1] IN
       \/ /\ priceHistory' = AppendPrice(priceHistory, row)
          /\ clock' = clock + 1
          /\ w' = [w EXCEPT ![p] = NextRecord(p, w[p].count + 1)]
       \/ /\ w' = [w EXCEPT ![p] = Skip(p, "DatabaseError")]
          /\ UNCHANGED <<priceHistory, clock>>
    /\ UNCHANGED <<users, competitors, sessions, products, alerts, counters>>

\* Lines 111-115: the session is completed with products_found.
finalize_session(p) ==
    /\ w[p].pc = "finalize"
    /\ LET sess == [w[p].session EXCEPT !.status = "completed",
                                        !.products_found = w[p].count] IN
       \/ /\ sessions' = SaveRow(sessions, sess)
          /\ w' = [w EXCEPT ![p] = [@ EXCEPT !.pc = "touch", !.session = sess]]
       \/ /\ Raise(p, sess, "save")
          /\ UNCHANGED sessions
    /\ UNCHANGED <<users, competitors, products, priceHistory, alerts, clock, counters>>

\* Line 119 with the competitor put back in service as well.
TouchAndActivate(competitor, now) ==
    [competitor EXCEPT !.last_scraped_at = now, !.is_active = TRUE]

\* Line 119: competitor.last_scraped_at = timezone.now(), on the row read at
\* line 20.
Touch(competitor, now) == [competitor EXCEPT !.last_scraped_at = now]

\* Lines 118-127: the competitor's last_scraped_at, then the result.
touch_competitor(p) ==
    /\ w[p].pc = "touch"
    /\ LET comp == Touch(w[p].competitor, clock + 1) IN
       \/ /\ competitors' = SaveRow(competitors, comp)
          /\ clock' = clock + 1
          /\ w' = [w EXCEPT ![p] = [@ EXCEPT !.pc = "returned", !.competitor = comp,
                       !.result = [NoResult EXCEPT !.kind = "scrape", !.success = TRUE,
                                      !.products_found = w[p].count,
                                      !.session_id = w[p].session.id]]]
       \/ /\ Raise(p, w[p].session, "save")
          /\ UNCHANGED <<competitors, clock>>
    /\ UNCHANGED <<users, sessions, products, priceHistory, alerts, counters>>

\* The view answers the request (trigger_scraping / trigger_analysis).
respond(p) ==
    /\ w[p].pc \in {"returned", "raised"}
    /\ w' = [w EXCEPT ![p] = Idle]
    /\ UNCHANGED <<tables, clock, counters>>

\* ---------------------------------------------------- analyze_price_changes
HistoryOf(pid) == {r \in priceHistory : r.product = pid}

Latest(H) == CHOOSE r \in H : \A q \in H : q.recorded_at <= r.recorded_at

\* product.price_history.all()[:2] under ordering = ['-recorded_at'].
RecentPrices(pid) ==
    LET H == HistoryOf(pid) IN
    IF H = {} THEN <<>>
    ELSE IF Cardinality(H) = 1 THEN <<Latest(H)>>
    ELSE <<Latest(H), Latest(H \ {Latest(H)})>>

\* The orders in which competitor.products.all() may yield the rows (the
\* Product model declares no ordering).
Orders(S) == {s \in [1..Cardinality(S) -> S] : \A x \in S : \E k \in DOMAIN s : s[k] = x}

\* The guard of line 212 with 1 in place of 2.
TooFewPricesOffByOne(recent_prices) == Len(recent_prices) < 1

\* if recent_prices.count() < 2: continue
TooFewPrices(recent_prices) == Len(recent_prices) < 2

\* Lines 201-206: look the competitor up, start the loop over its products.
analyze_start(p, cid) ==
    /\ w[p].pc = "idle"
    /\ nRequests < MaxRequests
    /\ nRequests' = nRequests + 1
    /\ IF \A c \in competitors : c.id # cid
       THEN w' = [w EXCEPT ![p] = [@ EXCEPT !.pc = "returned",
                     !.result = [NoResult EXCEPT !.kind = "analyze",
                                    !.error = "Concurrent introuvable"]]]
       ELSE \E order \in Orders({x.id : x \in {y \in products : y.competitor = cid}}) :
               w' = [w EXCEPT ![p] = [@ EXCEPT !.pc = "analyze",
                        !.competitor = CompetitorRow(cid), !.todo = order,
                        !.alerts_created = 0]]
    /\ UNCHANGED <<tables, clock, nRecords>>

\* Lines 208-216, one iteration: fewer than two rows, continue; otherwise
\* recent_prices.price is read off the QuerySet, which has no such
\* attribute: AttributeError leaves the function (no try around the loop,
\* none in trigger_analysis). Lines 219-243 are never reached.
analyze_product(p) ==
    /\ w[p].pc = "analyze"
    /\ w[p].todo # <<>>
    /\ LET pid == Head(w[p].todo)
           recent_prices == RecentPrices(pid) IN
       IF TooFewPrices(recent_prices)
       THEN w' = [w EXCEPT ![p] = [@ EXCEPT !.todo = Tail(@),
                     !.log = Append(@, [product |-> pid, n |-> Len(recent_prices),
                                        current |-> 0, previous |-> 0,
                                        outcome |-> "skipped"])]]
       ELSE w' = [w EXCEPT ![p] = [@ EXCEPT !.pc = "raised",
                     !.log = Append(@, [product |-> pid, n |-> Len(recent_prices),
                                        current |-> recent_prices[1].price,
                                        previous |-> IF Len(recent_prices) > 1
                                                     THEN recent_prices[2].price ELSE 0,
                                        outcome |-> "AttributeError"]),
                     !.result = [NoResult EXCEPT !.kind = "exception",
                                                 !.error = "AttributeError"]]]
    /\ UNCHANGED <<tables, clock, counters>>

\* Lines 245-248.
analyze_return(p) ==
    /\ w[p].pc = "analyze"
    /\ w[p].todo = <<>>
    /\ w' = [w EXCEPT ![p] = [@ EXCEPT !.pc = "returned",
                 !.result = [NoResult EXCEPT !.kind = "analyze", !.success = TRUE,
                                !.alerts_created = w[p].alerts_created]]]
    /\ UNCHANGED <<tables, clock, counters>>

\* ------------------------------------------------------------------- views
competitor_add(u) ==
    /\ u \in users
    /\ nRequests < MaxRequests
    /\ nRequests' = nRequests + 1
    /\ clock' = clock + 1
    /\ competitors' = competitors \cup
           {[id |-> clock + 1, user |-> u, is_active |-> TRUE, last_scraped_at |-> NULL]}
    /\ UNCHANGED <<users, sessions, products, priceHistory, alerts, w, nRecords>>

competitor_edit(u, cid) ==
    /\ u \in users
    /\ nRequests < MaxRequests
    /\ nRequests' = nRequests + 1
    /\ \E c \in competitors :
          /\ c.id = cid /\ c.user = u
          /\ competitors' = SaveRow(competitors, [c EXCEPT !.is_active = ~@])
    /\ UNCHANGED <<users, sessions, products, priceHistory, alerts, w, clock, nRecords>>

\* on_delete=CASCADE for sessions, products and their price history;
\* on_delete=SET_NULL for the alerts' competitor and product.
DeleteCompetitors(cids) ==
    LET gone == {x.id : x \in {y \in products : y.competitor \in cids}} IN
    /\ competitors' = {c \in competitors : c.id \notin cids}
    /\ sessions' = {s \in sessions : s.competitor \notin cids}
    /\ products' = {x \in products : x.competitor \notin cids}
    /\ priceHistory' = {r \in priceHistory : r.product \notin gone}

DetachAlerts(A, cids) ==
    LET gone == {x.id : x \in {y \in products : y.competitor \in cids}} IN
    {[a EXCEPT !.competitor = IF @ \in cids THEN NULL ELSE @,
               !.product = IF @ \in gone THEN NULL ELSE @] : a \in A}

competitor_delete(u, cid) ==
    /\ u \in users
    /\ nRequests < MaxRequests
    /\ nRequests' = nRequests + 1
    /\ \E c \in competitors : c.id = cid /\ c.user = u
    /\ ~InFlight(cid)
    /\ DeleteCompetitors({cid})
    /\ alerts' = DetachAlerts(alerts, {cid})
    /\ UNCHANGED <<users, w, clock, nRecords>>

client_delete(u) ==
    /\ u \in users
    /\ nRequests < MaxRequests
    /\ nRequests' = nRequests + 1
    /\ LET cids == {c.id : c \in {d \in competitors : d.user = u}} IN
       /\ \A cid \in cids : ~InFlight(cid)
       /\ DeleteCompetitors(cids)
       /\ alerts' = {a \in alerts : a.user # u}
    /\ users' = users \ {u}
    /\ UNCHANGED <<w, clock, nRecords>>

mark_as_read(u, aid) ==
    /\ u \in users
    /\ nRequests < MaxRequests
    /\ nRequests' = nRequests + 1
    /\ \E a \in alerts :
          /\ a.id = aid /\ a.user = u
          /\ alerts' = SaveRow(alerts, [a EXCEPT !.is_read = TRUE])
    /\ UNCHANGED <<users, competitors, sessions, products, priceHistory, w, clock, nRecords>>

mark_all_as_read(u) ==
    /\ u \in users
    /\ nRequests < MaxRequests
    /\ nRequests' = nRequests + 1
    /\ alerts' = {[a EXCEPT !.is_read = IF a.user = u THEN TRUE ELSE @] : a \in alerts}
    /\ UNCHANGED <<users, competitors, sessions, products, priceHistory, w, clock, nRecords>>

delete_alert(u, aid) ==
    /\ u \in users
    /\ nRequests < MaxRequests
    /\ nRequests' = nRequests + 1
    /\ \E a \in alerts :
          /\ a.id = aid /\ a.user = u
          /\ alerts' = alerts \ {a}
    /\ UNCHANGED <<users, competitors, sessions, products, priceHistory, w, clock, nRecords>>

\* ------------------------------------------------------------ specification
CompetitorIds == {c.id : c \in competitors} \cup {NULL}

Next ==
    \/ \E p \in DOMAIN w, cid \in CompetitorIds : scrape_start(p, cid)
    \/ \E p \in DOMAIN w : fetch_page(p)
    \/ \E p \in DOMAIN w : save_raw_html(p)
    \/ \E p \in DOMAIN w : split_text(p)
    \/ \E p \in DOMAIN w : extract(p)
    \/ \E p \in DOMAIN w : get_or_create(p)
    \/ \E p \in DOMAIN w : create_product(p)
    \/ \E p \in DOMAIN w : create_new_product_alert(p)
    \/ \E p \in DOMAIN w : create_price_history(p)
    \/ \E p \in DOMAIN w : finalize_session(p)
    \/ \E p \in DOMAIN w : touch_competitor(p)
    \/ \E p \in DOMAIN w : handle_exception(p)
    \/ \E p \in DOMAIN w, cid \in CompetitorIds : analyze_start(p, cid)
    \/ \E p \in DOMAIN w : analyze_product(p)
    \/ \E p \in DOMAIN w : analyze_return(p)
    \/ \E p \in DOMAIN w : respond(p)
    \/ \E u \in Users : competitor_add(u)
    \/ \E u \in Users, cid \in CompetitorIds : competitor_edit(u, cid)
    \/ \E u \in Users, cid \in CompetitorIds : competitor_delete(u, cid)
    \/ \E u \in Users : client_delete(u)
    \/ \E u \in Users, a \in alerts : mark_as_read(u, a.id)
    \/ \E u \in Users : mark_all_as_read(u)
    \/ \E u \in Users, a \in alerts : delete_alert(u, a.id)

Spec == Init /\ [][Next]_vars

\* save_products_to_database entered by two scrape sessions of one
\* competitor at once: a competitor_add request has created the competitor,
\* two trigger_scraping requests have each created their session, fetched
\* the page and extracted their records, and no Product exists yet.
RaceWorkers == {1, 2}

RaceCompetitor(u) == [id |-> 1, user |-> u, is_active |-> TRUE, last_scraped_at |-> NULL]

RaceSession(p) ==
    [NoSession EXCEPT !.id = 1 + p, !.competitor = 1, !.status = "running",
                      !.raw_html = "html"]

InitRace ==
    /\ users = Users
    /\ \E u \in Users, lists \in [RaceWorkers -> RecordLists] :
          /\ Len(lists[1]) + Len(lists[2]) <= MaxRecords
          /\ nRecords = Len(lists[1]) + Len(lists[2])
          /\ competitors = {RaceCompetitor(u)}
          /\ w = [p \in RaceWorkers |->
                    [Idle EXCEPT !.competitor = RaceCompetitor(u),
                                 !.session = RaceSession(p),
                                 !.submitted = <<BatchIndex>>,
                                 !.all_products = lists[p], !.i = 1,
                                 !.pc = IF lists[p] = <<>> THEN "finalize"
                                        ELSE "get_or_create"]]
    /\ sessions = {RaceSession(p) : p \in RaceWorkers}
    /\ products = {} /\ priceHistory = {} /\ alerts = {}
    /\ clock = 3
    /\ nRequests = 3

NextRace ==
    \/ \E p \in DOMAIN w : get_or_create(p)
    \/ \E p \in DOMAIN w : create_product(p)
    \/ \E p \in DOMAIN w : create_new_product_alert(p)
    \/ \E p \in DOMAIN w : create_price_history(p)

SpecRace == InitRace /\ [][NextRace]_vars

\* ------------------------------------------------------ split_into_batches
\* utils/dom_cleaner.py on its own: a worker's frame holds the arguments and
\* the locals of one call. A text is a sequence of characters.
Chars == {"a", ".", " "}

Texts == UNION {[1..n -> Chars] : n \in 0..MaxLen}

IsSep(s, k) == k < Len(s) /\ s[k] = "." /\ s[k + 1] = " "

\* str.split('. '): the pieces between the occurrences of the separator,
\* found from the left; a text without separator is its own single piece.
RECURSIVE Split(_)
Split(s) ==
    IF \E k \in 1..Len(s) : IsSep(s, k)
    THEN LET k == CHOOSE j \in 1..Len(s) : IsSep(s, j) /\ \A m \in 1..(j - 1) : ~IsSep(s, m)
         IN <<SubSeq(s, 1, k - 1)>> \o Split(SubSeq(s, k + 2, Len(s)))
    ELSE <<s>>

\* str.strip(): leading and trailing whitespace removed.
RECURSIVE Strip(_)
Strip(s) ==
    IF s = <<>> THEN s
    ELSE IF Head(s) = " " THEN Strip(Tail(s))
    ELSE IF s[Len(s)] = " " THEN Strip(SubSeq(s, 1, Len(s) - 1))
    ELSE s

\* The else branch of line 36 with the overflowing sentence left out.
StartBatchEmpty(sentence) == <<>>

\* Line 39: current_batch = sentence + '. '
StartBatch(sentence) == sentence \o <<".", " ">>

SplitFrame(text, max_chars) ==
    [pc |-> "split", text |-> text, max_chars |-> max_chars, sentences |-> <<>>,
     k |-> 0, batches |-> <<>>, current_batch |-> <<>>]

InitBatch ==
    /\ users = Users
    /\ competitors = {} /\ sessions = {} /\ products = {}
    /\ priceHistory = {} /\ alerts = {}
    /\ clock = 0 /\ nRequests = 0 /\ nRecords = 0
    /\ \E text \in Texts, max_chars \in 1..MaxChars :
          w = [p \in Workers |-> SplitFrame(text, max_chars)]

\* Lines 26-31.
split_start(p) ==
    /\ w[p].pc = "split"
    /\ IF Len(w[p].text) <= w[p].max_chars
       THEN w' = [w EXCEPT ![p] = [@ EXCEPT !.pc = "done", !.batches = <<w[p].text>>]]
       ELSE w' = [w EXCEPT ![p] = [@ EXCEPT !.pc = "loop", !.k = 1,
                     !.sentences = Split(w[p].text)]]
    /\ UNCHANGED <<tables, clock, counters>>

\* Lines 33-39, one iteration.
split_sentence(p) ==
    /\ w[p].pc = "loop"
    /\ w[p].k <= Len(w[p].sentences)
    /\ LET sentence == w[p].sentences[w[p].k]
           current_batch == w[p].current_batch IN
       IF Len(current_batch) + Len(sentence) + 2 <= w[p].max_chars
       THEN w' = [w EXCEPT ![p] = [@ EXCEPT !.k = @ + 1,
                     !.current_batch = current_batch \o sentence \o <<".", " ">>]]
       ELSE w' = [w EXCEPT ![p] = [@ EXCEPT !.k = @ + 1,
                     !.batches = IF current_batch # <<>>
                                 THEN Append(@, Strip(current_batch)) ELSE @,
                     !.current_batch = StartBatch(sentence)]]
    /\ UNCHANGED <<tables, clock, counters>>

\* Lines 41-44.
split_return(p) ==
    /\ w[p].pc = "loop"
    /\ w[p].k > Len(w[p].sentences)
    /\ w' = [w EXCEPT ![p] = [@ EXCEPT !.pc = "done",
                 !.batches = IF w[p].current_batch # <<>>
                             THEN Append(@, Strip(w[p].current_batch)) ELSE @]]
    /\ UNCHANGED <<tables, clock, counters>>

NextBatch ==
    \/ \E p \in DOMAIN w : split_start(p)
    \/ \E p \in DOMAIN w : split_sentence(p)
    \/ \E p \in DOMAIN w : split_return(p)

SpecBatch == InitBatch /\ [][NextBatch]_vars

\* ------------------------------------------------------------- extraction
\* utils/llm_processor.py (the extraction the scrape imports) and
\* utils2/small_llm_processor.py, on their own: a worker's frame holds one
\* call, its argument being what the model call gives back.

\* A JSON value met in a promotion: absent or null, a string, a number.
None == [t |-> "none", v |-> ""]
Str(v) == [t |-> "str", v |-> v]
Num(v) == [t |-> "int", v |-> v]

\* Python truth of a value: None, '' and 0 are false.
Truthy(x) == x.t # "none" /\ x.v # "" /\ x.v # "0"

\* An item of the 'promotions' array: a string, a number or an object with
\* some of the keys description, name, code, text; repr is what str() gives.
Promo(t, v, description, name, code, text, repr) ==
    [t |-> t, v |-> v, description |-> description, name |-> name, code |-> code,
     text |-> text, repr |-> repr]

PromoItems ==
    {Promo("str", "P", None, None, None, None, "P"),
     Promo("int", "7", None, None, None, None, "7"),
     Promo("dict", "", Str("D"), Str("N"), None, None, "{description, name}"),
     Promo("dict", "", None, Str("N"), Str("C"), None, "{name, code}"),
     Promo("dict", "", None, None, Str("C"), None, "{code}"),
     Promo("dict", "", None, None, None, Str("T"), "{text}"),
     Promo("dict", "", Num("5"), None, None, None, "{description: 5}")}

\* An entry of the 'products' array.
ProductEntries ==
    {[product_identifier |-> v[1], name |-> v[2], price |-> v[3], currency |-> v[4]] :
        v \in {<<"SKU1", "A", 100, "DT">>, <<"SKU2", "B", 80, "DT">>,
               <<"SKU1", "A", -5, "DT">>, <<"SKU2", "B", 0, "DT">>,
               <<"SKU1", "A", 100, "eur">>, <<"SKU2", "B", 80, "EURO">>}}

\* A key of the JSON object: absent, not an array, or an array of items.
Field(kind, items) == [kind |-> kind, items |-> items]
Absent == Field("absent", <<>>)
Scalar == Field("scalar", <<>>)

SeqsUpTo(S, n) == UNION {[1..m -> S] : m \in 0..n}

\* What the model call gives back: the call raises, the answer has no
\* message content, or the content is text without JSON, a JSON array, or a
\* JSON object.
Content(shape, ps, qs) == [shape |-> shape, products |-> ps, promotions |-> qs]

Contents ==
    {Content("text", Absent, Absent), Content("array", Absent, Absent)} \cup
    {Content("object", ps, qs) :
        ps \in {Absent, Scalar} \cup {Field("list", l) : l \in SeqsUpTo(ProductEntries, MaxEntries)},
        qs \in {Absent, Scalar} \cup {Field("list", l) : l \in SeqsUpTo(PromoItems, MaxPromos)}}

Outcome(call, content) == [call |-> call, content |-> content]

Outcomes ==
    {Outcome("error", Content("text", Absent, Absent)),
     Outcome("nocontent", Content("text", Absent, Absent))} \cup
    {Outcome("ok", c) : c \in Contents}

\* ProductExtraction of either module: identifier 1..255 characters, name
\* 1..500, price > 0, currency at most 3 characters (llm_processor) or 10
\* (small_llm_processor). The fields are kept as given.
CurrencyMaxLength(fn) == IF fn = "llm" THEN 3 ELSE 10

ValidProduct(fn, e) ==
    /\ Len(e.product_identifier) \in 1..255
    /\ Len(e.name) \in 1..500
    /\ e.price > 0
    /\ Len(e.currency) <= CurrencyMaxLength(fn)

LLMResponse(ps, qs) == [products |-> ps, promotions |-> qs]

EmptyResponse == LLMResponse(<<>>, <<>>)

Items(field) == IF field.kind = "list" THEN field.items ELSE <<>>

AllStr(qs) == \A k \in 1..Len(qs) : qs[k].t = "str"

\* a or b of Python
Or(a, b) == IF Truthy(a) THEN a ELSE b

\* The field validator of small_llm_processor.LLMResponse (mode='before').
convert_promotions_to_strings(v) ==
    [k \in 1..Len(Items(v)) |->
        LET item == Items(v)[k] IN
        IF item.t = "str" THEN Str(item.v)
        ELSE IF item.t = "dict"
             THEN Or(item.description, Or(item.name, Or(item.code,
                      Or(item.text, Str(item.repr)))))
             ELSE Str(item.repr)]

\* Lines 224-237 of small_llm_processor: strings and objects only.
manual_promotions(v) ==
    LET IsStrOrDict(item) == item.t \in {"str", "dict"}
        kept == SelectSeq(Items(v), IsStrOrDict) IN
    [k \in 1..Len(kept) |->
        IF kept[k].t = "str" THEN Str(kept[k].v)
        ELSE Or(kept[k].description, Or(kept[k].name, Or(kept[k].code,
                 Str(kept[k].repr))))]

\* Lines 214-222 of small_llm_processor: each entry validated on its own.
valid_products(v) ==
    LET Ok(e) == ValidProduct("small_llm", e) IN SelectSeq(Items(v), Ok)

\* extract_json_from_text: the first JSON object of the text that has a
\* 'products' or a 'promotions' key, else the empty structure.
extract_json_from_text(text) ==
    IF /\ text.shape = "object"
       /\ (text.products.kind # "absent" \/ text.promotions.kind # "absent")
    THEN text
    ELSE Content("object", Field("list", <<>>), Field("list", <<>>))

\* LLMResponse.model_validate_json / model_validate: does the whole
\* document satisfy the schema, and the response it then gives.
Validates(fn, doc) ==
    /\ doc.shape = "object"
    /\ doc.products.kind \in {"absent", "list"}
    /\ \A k \in 1..Len(Items(doc.products)) : ValidProduct(fn, Items(doc.products)[k])
    /\ IF fn = "llm"
       THEN /\ doc.promotions.kind \in {"absent", "list"}
            /\ \A k \in 1..Len(Items(doc.promotions)) : Items(doc.promotions)[k].t = "str"
       ELSE AllStr(convert_promotions_to_strings(doc.promotions))

Validated(fn, doc) ==
    LLMResponse(Items(doc.products), convert_promotions_to_strings(doc.promotions))

ExtractFrame(fn, outcome) ==
    [pc |-> "chat", fn |-> fn, outcome |-> outcome,
     raw_content |-> Content("text", Absent, Absent),
     json_data |-> Content("text", Absent, Absent),
     exc |-> "", result |-> EmptyResponse]

InitExtract ==
    /\ users = Users
    /\ competitors = {} /\ sessions = {} /\ products = {}
    /\ priceHistory = {} /\ alerts = {}
    /\ clock = 0 /\ nRequests = 0 /\ nRecords = 0
    /\ \E fn \in {"llm", "small_llm"}, outcome \in Outcomes :
          w = [p \in Workers |-> ExtractFrame(fn, outcome)]

\* except ValidationError in place of except Exception.
CatchesValidationErrorOnly(exc) == exc = "ValidationError"

\* except Exception as e (llm_processor 147, small_llm_processor 241).
Catches(exc) == TRUE

\* response = chat(...); raw_content = response['message']['content']
chat(p) ==
    /\ w[p].pc = "chat"
    /\ LET call == w[p].outcome.call IN
       w' = [w EXCEPT ![p] =
               IF call = "error"
               THEN [@ EXCEPT !.pc = "outer_except", !.exc = "ConnectionError"]
               ELSE IF call = "nocontent"
               THEN [@ EXCEPT !.pc = "outer_except", !.exc = "KeyError"]
               ELSE [@ EXCEPT !.raw_content = w[p].outcome.content,
                              !.pc = IF w[p].fn = "llm" THEN "validate"
                                     ELSE "extract_json"]]
    /\ UNCHANGED <<tables, clock, counters>>

\* small_llm_processor 200: json_data = extract_json_from_text(raw_content)
extract_json(p) ==
    /\ w[p].pc = "extract_json"
    /\ w' = [w EXCEPT ![p] = [@ EXCEPT !.pc = "validate",
                 !.json_data = extract_json_from_text(w[p].raw_content)]]
    /\ UNCHANGED <<tables, clock, counters>>

\* llm_processor 135-145: the validated response, or the empty one on
\* ValidationError. small_llm_processor 203-208: the validated response, or
\* on to the partial recovery.
model_validate(p) ==
    /\ w[p].pc = "validate"
    /\ LET doc == IF w[p].fn = "llm" THEN w[p].raw_content ELSE w[p].json_data IN
       w' = [w EXCEPT ![p] =
               IF Validates(w[p].fn, doc)
               THEN [@ EXCEPT !.pc = "done", !.result = Validated(w[p].fn, doc)]
               ELSE IF w[p].fn = "llm"
               THEN [@ EXCEPT !.pc = "done", !.exc = "ValidationError",
                              !.result = EmptyResponse]
               ELSE [@ EXCEPT !.pc = "recover", !.exc = "ValidationError"]]
    /\ UNCHANGED <<tables, clock, counters>>

\* small_llm_processor 213-239: the entries that validate one by one, the
\* promotions converted by hand, and LLMResponse(...) built from them, its
\* validation raising when a promotion is still no string.
recover(p) ==
    /\ w[p].pc = "recover"
    /\ LET ps == valid_products(w[p].json_data.products)
           qs == manual_promotions(w[p].json_data.promotions) IN
       w' = [w EXCEPT ![p] =
               IF AllStr(qs)
               THEN [@ EXCEPT !.pc = "done", !.result = LLMResponse(ps, qs)]
               ELSE [@ EXCEPT !.pc = "outer_except", !.exc = "ValidationError"]]
    /\ UNCHANGED <<tables, clock, counters>>

\* except Exception: return LLMResponse(products=[], promotions=[])
outer_except(p) ==
    /\ w[p].pc = "outer_except"
    /\ w' = [w EXCEPT ![p] =
               IF Catches(w[p].exc)
               THEN [@ EXCEPT !.pc = "done", !.result = EmptyResponse]
               ELSE [@ EXCEPT !.pc = "raised"]]
    /\ UNCHANGED <<tables, clock, counters>>

NextExtract ==
    \/ \E p \in DOMAIN w : chat(p)
    \/ \E p \in DOMAIN w : extract_json(p)
    \/ \E p \in DOMAIN w : model_validate(p)
    \/ \E p \in DOMAIN w : recover(p)
    \/ \E p \in DOMAIN w : outer_except(p)

SpecExtract == InitExtract /\ [][NextExtract]_vars

\* ----------------------------------------------------- the model's request
\* What extract_products_with_llm and extract_products_with_small_llm put
\* of a batch into the request, on their own. A batch is given by its
\* length in characters: the batches of the scrape come from
\* split_into_batches(cleaned_text, max_chars=7500).
ScrapeMaxChars == 7500

\* text_batch[:5000] (llm_processor 104), text_batch[:3000]
\* (small_llm_processor 176).
PromptChars(fn) == IF fn = "llm" THEN 5000 ELSE 3000

\* len(text[:k])
SliceLen(n, k) == IF n <= k THEN n ELSE k

PromptFrame(fn, n) == [pc |-> "prompt", fn |-> fn, text_batch |-> n, in_prompt |-> 0,
                       requested |-> 0]

InitPrompt ==
    /\ users = Users
    /\ competitors = {} /\ sessions = {} /\ products = {}
    /\ priceHistory = {} /\ alerts = {}
    /\ clock = 0 /\ nRequests = 0 /\ nRecords = 0
    /\ \E fn \in {"llm", "small_llm"}, n \in 0..ScrapeMaxChars :
          w = [p \in Workers |-> PromptFrame(fn, n)]

\* user_prompt = f"""... {text_batch[:5000]} ..."""
user_prompt(p) ==
    /\ w[p].pc = "prompt"
    /\ w' = [w EXCEPT ![p] = [@ EXCEPT !.pc = "request",
                 !.in_prompt = SliceLen(w[p].text_batch, PromptChars(w[p].fn))]]
    /\ UNCHANGED <<tables, clock, counters>>

\* chat(model=model, messages=[system_prompt, user_prompt], ...)
chat_request(p) ==
    /\ w[p].pc = "request"
    /\ w' = [w EXCEPT ![p] = [@ EXCEPT !.pc = "sent", !.requested = w[p].in_prompt]]
    /\ UNCHANGED <<tables, clock, counters>>

NextPrompt ==
    \/ \E p \in DOMAIN w : user_prompt(p)
    \/ \E p \in DOMAIN w : chat_request(p)

SpecPrompt == InitPrompt /\ [][NextPrompt]_vars

\* ---------------------------------------------------------------- auth_app
\* auth_app/views.py and auth_app/forms.py on their own: users holds the
\* rows of auth.User, a worker is a browser session, its frame the request
\* it has sent and the page it shows.
Browsers == {1, 2}

AuthUser(username, email, password, is_active, is_superuser, groups) ==
    [username |-> username, email |-> email, password |-> password,
     is_active |-> is_active, is_superuser |-> is_superuser, groups |-> groups]

\* The accounts of the fixtures: a superuser without group, a member of both
\* groups, a client, a user of no group (create_user), an inactive client.
SeedUsers ==
    {AuthUser("root", "r@x", "p", TRUE, TRUE, {}),
     AuthUser("both", "b@x", "p", TRUE, FALSE, {"Admin", "Client"}),
     AuthUser("carl", "A@x", "p", TRUE, FALSE, {"Client"}),
     AuthUser("plain", "g@x", "p", TRUE, FALSE, {}),
     AuthUser("gone", "o@x", "p", FALSE, FALSE, {"Client"})}

AnonymousUser == AuthUser("", "", "", FALSE, FALSE, {})

\* str.lower() on the e-mail addresses of the model.
Lower(email) == IF email = "A@x" THEN "a@x" ELSE IF email = "N@x" THEN "n@x" ELSE email

Url(path, next) == [path |-> path, next |-> next]

NoData == [username |-> "", email |-> "", password1 |-> "", password2 |-> ""]

\* settings.LOGIN_URL, where login_required and user_passes_test send a
\* refused request: Django's default, or the login page of urls.py.
LoginUrls == {"/accounts/login/", "/connexion/"}

BrowserFrame(login_url) ==
    [pc |-> "page", user |-> "", url |-> Url("", ""), method |-> "GET", data |-> NoData,
     chain |-> <<>>, page |-> "", login_url |-> login_url]

\* urlpatterns
reverse(name) ==
    CASE name = "home" -> "/"
      [] name = "connexion" -> "/connexion/"
      [] name = "inscription" -> "/inscription/"
      [] name = "deconnexion" -> "/deconnexion/"
      [] name = "admin_dashboard" -> "/dashboard/admin/"
      [] name = "client_dashboard" -> "/dashboard/client/"

Names == {"home", "connexion", "inscription", "deconnexion", "admin_dashboard",
          "client_dashboard"}

resolve(path) ==
    IF \E n \in Names : reverse(n) = path
    THEN CHOOSE n \in Names : reverse(n) = path
    ELSE "404"

\* request.user: the user of the session if the row exists and is active,
\* else AnonymousUser.
RequestUser(b) ==
    IF \E u \in users : u.username = w[b].user /\ u.is_active
    THEN CHOOSE u \in users : u.username = w[b].user
    ELSE AnonymousUser

is_authenticated(user) == user # AnonymousUser

\* is_admin without the group: superusers only.
is_admin_superuser_only(user) == user.is_active /\ user.is_superuser

is_admin(user) == user.is_active /\ (user.is_superuser \/ "Admin" \in user.groups)

is_client(user) == user.is_active /\ "Client" \in user.groups /\ ~is_admin(user)

dashboard_redirect(user) ==
    IF is_admin(user) THEN reverse("admin_dashboard")
    ELSE IF is_client(user) THEN reverse("client_dashboard")
    ELSE reverse("connexion")

\* render(request, template)
Render(b, template) == [w[b] EXCEPT !.pc = "page", !.page = template]

\* redirect(to), and the browser's request of the new location; a browser
\* gives up on a chain of more than MaxRedirects requests.
Redirect(b, url) ==
    IF Len(w[b].chain) < MaxRedirects
    THEN [w[b] EXCEPT !.pc = "request", !.url = url, !.method = "GET", !.data = NoData,
                      !.chain = Append(@, url)]
    ELSE [w[b] EXCEPT !.pc = "page", !.page = "ERR_TOO_MANY_REDIRECTS"]

Serving(b, name) == w[b].pc = "request" /\ resolve(w[b].url.path) = name

\* -- the browser
visit(b, path) ==
    /\ w[b].pc = "page"
    /\ nRequests < MaxRequests
    /\ nRequests' = nRequests + 1
    /\ w' = [w EXCEPT ![b] = [@ EXCEPT !.pc = "request", !.url = Url(path, ""),
                 !.method = "GET", !.data = NoData, !.chain = <<Url(path, "")>>,
                 !.page = ""]]
    /\ UNCHANGED <<tables, clock, nRecords>>

post(b, path, data) ==
    /\ w[b].pc = "page"
    /\ nRequests < MaxRequests
    /\ nRequests' = nRequests + 1
    /\ w' = [w EXCEPT ![b] = [@ EXCEPT !.pc = "request", !.url = Url(path, ""),
                 !.method = "POST", !.data = data, !.chain = <<Url(path, "")>>,
                 !.page = ""]]
    /\ UNCHANGED <<tables, clock, nRecords>>

LoginData == {[NoData EXCEPT !.username = u, !.password1 = p] :
                 u \in {"root", "both", "carl", "plain", "gone", "new1"}, p \in {"p", "q"}}

SignupData == {[username |-> u, email |-> e, password1 |-> "p", password2 |-> p2] :
                  u \in {"new1", "new2", "carl"}, e \in {"a@x", "N@x"}, p2 \in {"p", "q"}}

\* -- views.py
home(b) ==
    /\ Serving(b, "home")
    /\ w' = [w EXCEPT ![b] =
               IF is_authenticated(RequestUser(b))
               THEN Redirect(b, Url(dashboard_redirect(RequestUser(b)), ""))
               ELSE Render(b, "home.html")]
    /\ UNCHANGED <<tables, clock, counters>>

\* AuthenticationForm.is_valid(): the user of that name and password, if
\* active.
Authenticates(data) ==
    {u \in users : /\ u.username = data.username /\ u.password = data.password1
                   /\ u.is_active}

connexion(b) ==
    /\ Serving(b, "connexion")
    /\ w' = [w EXCEPT ![b] =
               IF is_authenticated(RequestUser(b))
               THEN Redirect(b, Url(dashboard_redirect(RequestUser(b)), ""))
               ELSE IF w[b].method = "POST" /\ Authenticates(w[b].data) # {}
               THEN LET user == CHOOSE u \in Authenticates(w[b].data) : TRUE IN
                    [Redirect(b, Url(dashboard_redirect(user), ""))
                        EXCEPT !.user = user.username]
               ELSE Render(b, "connexion.html")]
    /\ UNCHANGED <<tables, clock, counters>>

\* clean_email: lower-cased, refused if a user has it in any case.
EmailTaken(email) == \E u \in users : Lower(u.email) = Lower(email)

\* SignupForm.is_valid(): clean_email, clean_password2 of UserCreationForm,
\* and the uniqueness of username.
is_valid(data) ==
    /\ ~EmailTaken(data.email)
    /\ data.password1 = data.password2
    /\ \A u \in users : u.username # data.username

\* Lines 19-25 and 29-33: up to form.is_valid().
inscription(b) ==
    /\ Serving(b, "inscription")
    /\ w' = [w EXCEPT ![b] =
               IF is_authenticated(RequestUser(b))
               THEN Redirect(b, Url(dashboard_redirect(RequestUser(b)), ""))
               ELSE IF w[b].method = "POST" /\ is_valid(w[b].data)
               THEN [@ EXCEPT !.pc = "save", !.data.email = Lower(@)]
               ELSE Render(b, "inscription.html")]
    /\ UNCHANGED <<tables, clock, counters>>

\* client_group.user_set.add(user)
JoinClient(user) == [user EXCEPT !.groups = @ \cup {"Client"}]

\* form.save(), user.save(): the row is inserted; username is unique, and a
\* second row of the same name raises IntegrityError out of the view.
save_user(b) ==
    /\ w[b].pc = "save"
    /\ LET data == w[b].data IN
       IF \E u \in users : u.username = data.username
       THEN /\ w' = [w EXCEPT ![b] = Render(b, "500")]
            /\ UNCHANGED users
       ELSE /\ users' = users \cup
                   {AuthUser(data.username, data.email, data.password1, TRUE, FALSE, {})}
            /\ w' = [w EXCEPT ![b].pc = "join"]
    /\ UNCHANGED <<competitors, sessions, products, priceHistory, alerts, clock, counters>>

\* form.save(), Group.objects.get_or_create(name="Client") and
\* user_set.add(user); then redirect('connexion').
join_client(b) ==
    /\ w[b].pc = "join"
    /\ users' = {IF u.username = w[b].data.username THEN JoinClient(u) ELSE u : u \in users}
    /\ w' = [w EXCEPT ![b] = Redirect(b, Url(reverse("connexion"), ""))]
    /\ UNCHANGED <<competitors, sessions, products, priceHistory, alerts, clock, counters>>

\* @login_required @user_passes_test(test): a refused request is sent to
\* LOGIN_URL?next=path.
Guarded(b, passes, template) ==
    IF is_authenticated(RequestUser(b)) /\ passes
    THEN Render(b, template)
    ELSE Redirect(b, Url(w[b].login_url, w[b].url.path))

admin_dashboard(b) ==
    /\ Serving(b, "admin_dashboard")
    /\ w' = [w EXCEPT ![b] = Guarded(b, is_admin(RequestUser(b)), "admin_dashboard.html")]
    /\ UNCHANGED <<tables, clock, counters>>

client_dashboard(b) ==
    /\ Serving(b, "client_dashboard")
    /\ w' = [w EXCEPT ![b] = Guarded(b, is_client(RequestUser(b)), "client_dashboard.html")]
    /\ UNCHANGED <<tables, clock, counters>>

deconnexion(b) ==
    /\ Serving(b, "deconnexion")
    /\ w' = [w EXCEPT ![b] = [Redirect(b, Url(reverse("home"), "")) EXCEPT !.user = ""]]
    /\ UNCHANGED <<tables, clock, counters>>

\* A path of no pattern.
page_not_found(b) ==
    /\ Serving(b, "404")
    /\ w' = [w EXCEPT ![b] = Render(b, "404")]
    /\ UNCHANGED <<tables, clock, counters>>

InitAuth ==
    /\ users = SeedUsers
    /\ competitors = {} /\ sessions = {} /\ products = {}
    /\ priceHistory = {} /\ alerts = {}
    /\ clock = 0 /\ nRequests = 0 /\ nRecords = 0
    /\ \E login_url \in LoginUrls : w = [b \in Workers |-> BrowserFrame(login_url)]

NextAuth ==
    \/ \E b \in DOMAIN w, n \in Names : visit(b, reverse(n))
    \/ \E b \in DOMAIN w, data \in LoginData : post(b, reverse("connexion"), data)
    \/ \E b \in DOMAIN w, data \in SignupData : post(b, reverse("inscription"), data)
    \/ \E b \in DOMAIN w : home(b)
    \/ \E b \in DOMAIN w : connexion(b)
    \/ \E b \in DOMAIN w : inscription(b)
    \/ \E b \in DOMAIN w : save_user(b)
    \/ \E b \in DOMAIN w : join_client(b)
    \/ \E b \in DOMAIN w : admin_dashboard(b)
    \/ \E b \in DOMAIN w : client_dashboard(b)
    \/ \E b \in DOMAIN w : deconnexion(b)
    \/ \E b \in DOMAIN w : page_not_found(b)

SpecAuth == InitAuth /\ [][NextAuth]_vars

\* Two browser sessions signing up at once.
InitSignup ==
    /\ users \in {{}, {AuthUser("carl", "A@x", "p", TRUE, FALSE, {"Client"})}}
    /\ competitors = {} /\ sessions = {} /\ products = {}
    /\ priceHistory = {} /\ alerts = {}
    /\ clock = 0 /\ nRequests = 0 /\ nRecords = 0
    /\ \E login_url \in LoginUrls : w = [b \in Browsers |-> BrowserFrame(login_url)]

NextSignup ==
    \/ \E b \in DOMAIN w, data \in SignupData : post(b, reverse("inscription"), data)
    \/ \E b \in DOMAIN w : inscription(b)
    \/ \E b \in DOMAIN w : save_user(b)
    \/ \E b \in DOMAIN w : join_client(b)
    \/ \E b \in DOMAIN w : connexion(b)

SpecSignup == InitSignup /\ [][NextSignup]_vars

\* ------------------------------------------------------------------ claims
Terminal == {"completed", "failed"}

Scraping(p) == w[p].session.id # NULL

\* C1: every session is first observable in 'pending', moves only
\* pending -> running -> (completed | failed), and once it is completed or
\* failed no step of any operation changes its status.
C1_StatusOrder ==
    [][\A t \in sessions' :
          IF \E s \in sessions : s.id = t.id
          THEN \/ t.status = SessionRow(t.id).status
               \/ <<SessionRow(t.id).status, t.status>> \in
                     {<<"pending", "running">>, <<"running", "completed">>,
                      <<"running", "failed">>}
          ELSE t.status = "pending"]_vars

\* The last part of C1 on its own: a completed or failed session keeps its
\* status for as long as its row exists.
C1_TerminalKept ==
    [][\A s \in sessions, t \in sessions' :
          (s.id = t.id /\ s.status \in Terminal) => t.status = s.status]_vars

SessionPrices(sid) == {r \in priceHistory : r.scrape_session_id = sid}

C3_OneProductOneRowEach ==
    /\ \A x, y \in products :
          (x.competitor = y.competitor /\ x.product_identifier = y.product_identifier)
             => x = y
    /\ \A p \in DOMAIN w :
          Scraping(p) =>
             /\ Cardinality(SessionPrices(w[p].session.id)) = w[p].count
             /\ \A r \in SessionPrices(w[p].session.id) :
                   \E x \in products :
                      /\ x.id = r.product
                      /\ x.competitor = w[p].competitor.id
                      /\ \E k \in 1..Len(w[p].all_products) :
                            /\ w[p].all_products[k].product_identifier = x.product_identifier
                            /\ w[p].all_products[k].price = r.price

\* The same identifier reconciled in two sessions: one Product, two rows,
\* one from each session.
C3_Witness ==
    \E p \in DOMAIN w, x \in products :
        /\ w[p].pc = "finalize" /\ w[p].count = 1
        /\ w[p].all_products[1].product_identifier = x.product_identifier
        /\ Cardinality(HistoryOf(x.id)) = 2
        /\ Cardinality({r.scrape_session_id : r \in HistoryOf(x.id)}) = 2
        /\ Cardinality(products) = 1

\* C4: for every (competitor, product_identifier) exactly one 'new_product'
\* Alert (severity medium) is created: the scrape that creates the Product
\* creates it, and a reconciliation of an existing identifier creates none.
C4_NewProductAlertOnce ==
    [][\A p \in DOMAIN w :
          /\ (w[p].pc = "alert" /\ w'[p].pc # "alert") =>
                \E a \in alerts' :
                   /\ \A b \in alerts : b.id # a.id
                   /\ a.alert_type = "new_product" /\ a.severity = "medium"
                   /\ a.product = w[p].product
          /\ (w[p].pc # "alert" /\ w'[p] # w[p]) =>
                \A a \in alerts' :
                   (\A b \in alerts : b.id # a.id) => a.alert_type # "new_product"]_vars

\* |(current - previous) / previous * 100| >= pct, for prices > 0.
AbsChange(current, previous) ==
    IF current >= previous THEN current - previous ELSE previous - current

ChangeAtLeast(current, previous, pct) == AbsChange(current, previous) * 100 >= pct * previous

\* C6: when the two most recent PriceHistory rows of a product differ by at
\* least 5% in absolute value, analyze_price_changes creates an Alert for
\* it, 'price_decrease' if the change is negative and 'price_increase'
\* otherwise, 'high' from 15% on (history [100, 80]: price_decrease, high).
C6_ChangeAlerted ==
    \A p \in DOMAIN w : \A k \in 1..Len(w[p].log) :
        LET e == w[p].log[k] IN
        (e.n >= 2 /\ ChangeAtLeast(e.current, e.previous, PriceThreshold)) =>
            \E a \in alerts :
               /\ a.product = e.product
               /\ a.alert_type = IF e.current < e.previous
                                 THEN "price_decrease" ELSE "price_increase"
               /\ a.severity = IF ChangeAtLeast(e.current, e.previous, HighThreshold)
                               THEN "high" ELSE "medium"

\* C8: analyze_price_changes ends with a structured result, {success,
\* alerts_created} or {success: False, error}, for every competitor id and
\* every state of the store; no exception reaches its caller.
C8_AnalysisNeverRaises ==
    \A p \in DOMAIN w :
        /\ w[p].pc # "raised"
        /\ (w[p].pc = "returned" /\ w[p].result.kind = "analyze") =>
              (w[p].result.success \/ w[p].result.error # "")

\* C9: a product with fewer than two PriceHistory rows is skipped by
\* analyze_price_changes: no Alert is created, no product changes, nothing
\* is raised and the loop goes on with the remaining products.
C9_ShortHistorySkipped ==
    [][\A p \in DOMAIN w :
          (/\ w[p].pc = "analyze" /\ w[p].todo # <<>>
           /\ Cardinality(HistoryOf(Head(w[p].todo))) < 2
           /\ w'[p] # w[p]) =>
              /\ alerts' = alerts
              /\ products' = products
              /\ w'[p].pc = "analyze"
              /\ w'[p].todo = Tail(w[p].todo)
              /\ w'[p].alerts_created = w[p].alerts_created]_vars

\* Two products with one row each: the first is skipped, the loop goes on
\* to the second, skips it and returns.
C9_Witness ==
    \E p \in DOMAIN w :
        /\ w[p].pc = "returned" /\ w[p].result.kind = "analyze" /\ w[p].result.success
        /\ Len(w[p].log) = 2
        /\ \A k \in 1..2 : w[p].log[k].outcome = "skipped" /\ w[p].log[k].n = 1

\* C10 as stated: no step of any operation removes or rewrites a
\* PriceHistory row.
C10_AppendOnly == [][\A r \in priceHistory : r \in priceHistory']_vars

\* C10 as amended: no step rewrites a PriceHistory row, and a row is removed
\* only in a step that deletes the competitor owning its product (deleting
\* the competitor or its user cascades); every other operation keeps all
\* rows.
C10_RemovedOnlyByCascade ==
    [][/\ \A r \in priceHistory :
            \/ r \in priceHistory'
            \/ /\ \A t \in priceHistory' : t.id # r.id
               /\ \A c \in competitors' : c.id # ProductRow(r.product).competitor
       /\ \A t \in priceHistory' :
            (\E r \in priceHistory : r.id = t.id) => t \in priceHistory]_vars

\* The two rows a scrape wrote for one product are in place after a price
\* analysis has gone over that product.
C10_Witness ==
    /\ \E p \in DOMAIN w :
          /\ w[p].pc \in {"returned", "raised"}
          /\ w[p].result.kind \in {"analyze", "exception"}
          /\ w[p].log # <<>>
    /\ \E r, t \in priceHistory : r.product = t.product /\ r.recorded_at < t.recorded_at

\* C11: the scrape hands every batch of split_into_batches to extraction,
\* in order, whatever their number: the extraction stage submits the
\* indices 0 .. len(batches) - 1 and does not fail on the number of batches.
C11_EveryBatchSubmitted ==
    [][\A p \in DOMAIN w :
          (w[p].pc = "extract" /\ w'[p] # w[p]) =>
             /\ w'[p].submitted = [k \in 1..w[p].nbatches |-> k - 1]
             /\ w'[p].exc # "IndexError"]_vars

\* The sentences of a batch written by the loop of split_into_batches: each
\* sentence is followed by '. ', the batch's last space stripped.
SentencesOf(batch) ==
    LET pieces == Split(batch \o <<" ">>) IN SubSeq(pieces, 1, Len(pieces) - 1)

RECURSIVE Flatten(_)
Flatten(seqs) == IF seqs = <<>> THEN <<>> ELSE Head(seqs) \o Flatten(Tail(seqs))

\* str.lstrip()
RECURSIVE LStrip(_)
LStrip(s) == IF s # <<>> /\ Head(s) = " " THEN LStrip(Tail(s)) ELSE s

Joined(batches) == Flatten([k \in 1..Len(batches) |-> SentencesOf(batches[k])])

\* C12 as stated: the batches of split_into_batches, joined in order, hold
\* exactly the sentences of the text (split on '. '), in the original order,
\* none dropped, duplicated or reordered; a text no longer than max_chars
\* gives exactly one batch.
C12_SentencesKept ==
    \A p \in DOMAIN w :
        w[p].pc = "done" =>
            IF Len(w[p].text) <= w[p].max_chars
            THEN Len(w[p].batches) = 1 /\ Split(w[p].batches[1]) = Split(w[p].text)
            ELSE Joined(w[p].batches) = Split(w[p].text)

\* C12 as amended: for a text longer than max_chars the batches hold one
\* sentence for each sentence of the text, in the original order, each
\* verbatim or with its leading whitespace stripped; a text no longer than
\* max_chars gives exactly one batch, the text itself.
C12_SentencesKeptUpToStrip ==
    \A p \in DOMAIN w :
        w[p].pc = "done" =>
            IF Len(w[p].text) <= w[p].max_chars
            THEN w[p].batches = <<w[p].text>>
            ELSE LET got == Joined(w[p].batches)
                     sentences == Split(w[p].text) IN
                 /\ Len(got) = Len(sentences)
                 /\ \A k \in 1..Len(got) :
                       got[k] = sentences[k] \/ got[k] = LStrip(sentences[k])

\* A text of three sentences in two batches, the first batch holding two.
C12_Witness ==
    \E p \in DOMAIN w :
        /\ w[p].pc = "done"
        /\ Len(w[p].batches) = 2
        /\ Len(SentencesOf(w[p].batches[1])) = 2
        /\ \A k \in 1..3 : Split(w[p].text)[k] # <<>>

\* C13: every batch of split_into_batches is at most max_chars long, except
\* a batch made of one sentence that is itself longer than max_chars, which
\* is emitted whole; no batch is empty.
C13_BatchesBounded ==
    \A p \in DOMAIN w :
        w[p].pc = "done" =>
            \A k \in 1..Len(w[p].batches) :
                LET batch == w[p].batches[k] IN
                /\ batch # <<>>
                /\ \/ Len(batch) <= w[p].max_chars
                   \/ \E j \in 1..Len(Split(w[p].text)) :
                         /\ Len(Split(w[p].text)[j]) > w[p].max_chars
                         /\ batch = Strip(StartBatch(Split(w[p].text)[j]))

\* scraper.py imports extract_products_with_llm of utils/llm_processor.py.
ScrapeExtraction == "llm"

Returned(p) == w[p].pc = "done" /\ w[p].outcome.call = "ok"

\* C14: when a response holds several product entries of which some violate
\* the schema (price = -5, price <= 0), the extraction used by the scrape
\* returns exactly the entries that satisfy it one by one: the invalid ones
\* are dropped, the valid ones of the same response kept.
C14_ValidEntriesKept ==
    \A p \in DOMAIN w :
        (/\ Returned(p) /\ w[p].fn = ScrapeExtraction
         /\ w[p].outcome.content.shape = "object"
         /\ w[p].outcome.content.products.kind = "list"
         /\ w[p].outcome.content.promotions.kind = "absent") =>
            LET Ok(e) == ValidProduct(w[p].fn, e) IN
            w[p].result.products = SelectSeq(w[p].outcome.content.products.items, Ok)

\* Neither a product entry that satisfies the schema nor a promotion.
NothingValid(fn, outcome) ==
    \/ outcome.call # "ok"
    \/ outcome.content.shape # "object"
    \/ /\ \A k \in 1..Len(Items(outcome.content.products)) :
             ~ValidProduct(fn, Items(outcome.content.products)[k])
       /\ Items(outcome.content.promotions) = <<>>

\* C15: for every outcome of the model call (network error, text that is
\* no JSON, JSON of the wrong shape, valid JSON) both extraction functions
\* return an LLMResponse and raise nothing; with nothing valid to recover
\* the response has no products and no promotions.
C15_ExtractionNeverRaises ==
    \A p \in DOMAIN w :
        /\ w[p].pc # "raised"
        /\ (w[p].pc = "done" /\ NothingValid(w[p].fn, w[p].outcome)) =>
              w[p].result = EmptyResponse

\* Each function has returned the empty response after the model call
\* raised.
C15_Witness ==
    \E p \in DOMAIN w :
        /\ w[p].pc = "done" /\ w[p].exc = "ConnectionError"
        /\ w[p].outcome.call = "error"
        /\ w[p].result = EmptyResponse

\* str() of a value
ToStr(x) == Str(x.v)

\* The string C16 gives a promotion: itself if a string, else the first
\* available of description, name, code, else the generic conversion.
Coerced(item) ==
    IF item.t = "str" THEN Str(item.v)
    ELSE ToStr(Or(item.description, Or(item.name, Or(item.code, Str(item.repr)))))

\* C16: when the promotions of a response are objects instead of strings,
\* extraction still succeeds: each promotion becomes the string taken from
\* the first available of description, name, code, else its generic string
\* conversion, and the products of the response are returned as they would
\* be without the promotions.
C16_PromotionsCoerced ==
    \A p \in DOMAIN w :
        (/\ Returned(p)
         /\ w[p].outcome.content.shape = "object"
         /\ w[p].outcome.content.products.kind = "list"
         /\ \A k \in 1..Len(w[p].outcome.content.products.items) :
               ValidProduct(w[p].fn, w[p].outcome.content.products.items[k])
         /\ w[p].outcome.content.promotions.kind = "list"
         /\ \A k \in 1..Len(w[p].outcome.content.promotions.items) :
               w[p].outcome.content.promotions.items[k].t \in {"str", "dict"}) =>
            /\ w[p].result.products = w[p].outcome.content.products.items
            /\ w[p].result.promotions =
                  [k \in 1..Len(w[p].outcome.content.promotions.items) |->
                      Coerced(w[p].outcome.content.promotions.items[k])]

\* The currencies the pipeline knows, the fallback, and upper-casing.
KnownCurrencies == {"DT", "TND", "EUR", "USD"}
FallbackCurrency == "DT"
Upper(c) == IF c = "eur" THEN "EUR" ELSE c

\* C17: a product entry whose currency is not in the known set (longer
\* than 3 characters, or in lower case) is not rejected: the record is kept
\* with the currency upper-cased or replaced by the fallback currency, every
\* other field as it was.
C17_CurrencyNormalised ==
    \A p \in DOMAIN w :
        (/\ Returned(p) /\ w[p].fn = ScrapeExtraction
         /\ w[p].outcome.content.shape = "object"
         /\ w[p].outcome.content.products.kind = "list"
         /\ w[p].outcome.content.promotions.kind = "absent"
         /\ \A k \in 1..Len(w[p].outcome.content.products.items) :
               w[p].outcome.content.products.items[k].price > 0) =>
            /\ Len(w[p].result.products) = Len(w[p].outcome.content.products.items)
            /\ \A k \in 1..Len(w[p].result.products) :
                  LET e == w[p].outcome.content.products.items[k]
                      c == IF Upper(e.currency) \in KnownCurrencies
                           THEN Upper(e.currency) ELSE FallbackCurrency IN
                  w[p].result.products[k] = [e EXCEPT !.currency = c]

Reconciling(p) == w[p].pc \in {"get_or_create", "create", "alert", "history"}

\* C18: in save_products_to_database a persistence failure on one record
\* skips that record only: the loop goes on with the next record, or ends
\* after the last, the list as it was; nothing is raised to the scrape and
\* the session is not touched; the function returns the number of records
\* whose PriceHistory row was written.
C18_FailureSkipsOneRecord ==
    [][\A p \in DOMAIN w :
          (Reconciling(p) /\ w'[p] # w[p]) =>
             /\ w'[p].pc \notin {"except", "raised"}
             /\ w'[p].all_products = w[p].all_products
             /\ sessions' = sessions
             /\ \/ /\ w'[p].i = w[p].i
                   /\ w'[p].count = w[p].count
                   /\ w'[p].pc \in {"create", "alert", "history"}
                \/ /\ w'[p].i = w[p].i + 1
                   /\ w'[p].count \in {w[p].count, w[p].count + 1}
                   /\ w'[p].pc = IF w[p].i < Len(w[p].all_products)
                                 THEN "get_or_create" ELSE "finalize"
             /\ w'[p].pc = "finalize" =>
                   w'[p].count = Cardinality({r \in priceHistory' :
                                      r.scrape_session_id = w[p].session.id})]_vars

\* Two records: the first was skipped on a persistence failure, the second
\* reconciled; the function has returned 1 and the session is running.
C18_Witness ==
    \E p \in DOMAIN w :
        /\ w[p].pc = "finalize" /\ Len(w[p].all_products) = 2
        /\ w[p].skipped = <<"DatabaseError">> /\ w[p].count = 1
        /\ w[p].all_products[1].product_identifier # w[p].all_products[2].product_identifier
        /\ \E r \in SessionPrices(w[p].session.id) :
              ProductRow(r.product).product_identifier =
                  w[p].all_products[2].product_identifier
        /\ SessionRow(w[p].session.id).status = "running"

NewProductAlerts(pid) == {a \in alerts : a.product = pid /\ a.alert_type = "new_product"}

\* The records of its list that worker p has reconciled.
Done(p) == 1..(IF Reconciling(p) THEN w[p].i - 1 ELSE Len(w[p].all_products))

\* C20: two scrape sessions of one competitor run concurrently and
\* reconcile records of the same product_identifier: no record is skipped
\* for having lost the insert to the other session; there is one Product of
\* that identifier; once both have reconciled their record, neither skipping
\* on a persistence failure, each session's PriceHistory row is on that one
\* Product, and a Product created after both sessions began has exactly one
\* 'new_product' Alert.
C20_RaceOneProductOneAlert ==
    /\ \A p \in DOMAIN w : \A k \in 1..Len(w[p].skipped) : w[p].skipped[k] # "IntegrityError"
    /\ \A x, y \in products :
          (x.competitor = y.competitor /\ x.product_identifier = y.product_identifier)
             => x.id = y.id
    /\ \A p, q \in DOMAIN w :
          (/\ p # q /\ Scraping(p) /\ Scraping(q)
           /\ w[p].competitor.id = w[q].competitor.id
           /\ w[p].skipped = <<>> /\ w[q].skipped = <<>>) =>
             \A kp \in Done(p), kq \in Done(q) :
                w[p].all_products[kp].product_identifier =
                   w[q].all_products[kq].product_identifier =>
                   \E x \in products :
                      /\ x.competitor = w[p].competitor.id
                      /\ x.product_identifier = w[p].all_products[kp].product_identifier
                      /\ \E r \in SessionPrices(w[p].session.id) :
                            r.product = x.id /\ r.price = w[p].all_products[kp].price
                      /\ \E r \in SessionPrices(w[q].session.id) :
                            r.product = x.id /\ r.price = w[q].all_products[kq].price
                      /\ (x.id > w[p].session.id /\ x.id > w[q].session.id) =>
                            Cardinality(NewProductAlerts(x.id)) = 1

\* Both sessions have reconciled a record of the identifier of a Product
\* created after both began: one Product, one alert, a row of each session.
C20_Witness ==
    \E p, q \in DOMAIN w : \E x \in products :
        /\ p # q
        /\ w[p].pc = "finalize" /\ w[q].pc = "finalize"
        /\ w[p].count = 1 /\ w[q].count = 1
        /\ x.id > w[p].session.id /\ x.id > w[q].session.id
        /\ \E r \in SessionPrices(w[p].session.id) : r.product = x.id
        /\ \E r \in SessionPrices(w[q].session.id) : r.product = x.id
        /\ Cardinality(products) = 1
        /\ Cardinality(NewProductAlerts(x.id)) = 1

\* The dashboard C21 gives a user: the admin dashboard for an active
\* superuser or member of 'Admin', the client dashboard for any other active
\* member of 'Client', none ("") for the rest.
ClaimedDashboard(u) ==
    IF u.is_active /\ (u.is_superuser \/ "Admin" \in u.groups) THEN "/dashboard/admin/"
    ELSE IF u.is_active /\ "Client" \in u.groups THEN "/dashboard/client/"
    ELSE ""

\* The user a request of home, connexion or inscription is answered for:
\* the authenticated user of the session, or the one a POST to connexion
\* logs in.
AnsweredFor(b) ==
    IF is_authenticated(RequestUser(b)) THEN RequestUser(b)
    ELSE IF /\ resolve(w[b].url.path) = "connexion" /\ w[b].method = "POST"
            /\ Authenticates(w[b].data) # {}
    THEN CHOOSE u \in Authenticates(w[b].data) : TRUE
    ELSE AnonymousUser

\* C21: after a successful login, and whenever an authenticated user
\* requests the home, login or signup page, the answer is a redirect to the
\* dashboard of the user's role: the admin dashboard for an active superuser
\* or member of 'Admin', the client dashboard for an active member of
\* 'Client' who is no admin; admin wins for a user in both groups.
C21_RedirectedToRoleDashboard ==
    [][\A b \in DOMAIN w :
          (/\ w[b].pc = "request"
           /\ resolve(w[b].url.path) \in {"home", "connexion", "inscription"}
           /\ w'[b] # w[b]
           /\ ClaimedDashboard(AnsweredFor(b)) # "") =>
              /\ w'[b].pc = "request"
              /\ w'[b].url = Url(ClaimedDashboard(AnsweredFor(b)), "")
              /\ w'[b].method = "GET"
              /\ w'[b].user = AnsweredFor(b).username]_vars

\* The member of both groups has logged in and is shown the admin
\* dashboard.
C21_Witness ==
    \E b \in DOMAIN w :
        /\ w[b].user = "both" /\ w[b].pc = "page" /\ w[b].page = "admin_dashboard.html"
        /\ w[b].chain = <<Url("/connexion/", ""), Url("/dashboard/admin/", "")>>

\* C22: a signup creates its user only when the two passwords match and no
\* existing user has the same e-mail address in any case; a signup that has
\* succeeded (the redirect to the login page) leaves its user a member of
\* 'Client'; a rejected signup creates no user.
C22_SignupRules ==
    [][/\ \A u \in users' :
            (\A v \in users : v.username # u.username) =>
               \E b \in DOMAIN w :
                  /\ w[b].pc = "save" /\ w[b].data.username = u.username
                  /\ w[b].data.password1 = w[b].data.password2
                  /\ \A v \in users : Lower(v.email) # Lower(u.email)
       /\ \A b \in DOMAIN w :
            (w[b].pc = "join" /\ w'[b].pc = "request") =>
               \E u \in users' : u.username = w[b].data.username /\ "Client" \in u.groups
       /\ \A b \in DOMAIN w :
            (w[b].pc = "request" /\ w'[b].pc = "page") => users' = users]_vars

\* C29: for every authenticated user, whatever the groups and flags, the
\* redirects of home, connexion, inscription and the two dashboards end at a
\* rendered page: no chain of redirects comes back to a URL it has already
\* requested, and no chain is given up by the browser.
C29_RedirectsTerminate ==
    \A b \in DOMAIN w :
        is_authenticated(RequestUser(b)) =>
            /\ \A i, j \in 1..Len(w[b].chain) : i # j => w[b].chain[i] # w[b].chain[j]
            /\ w[b].page # "ERR_TOO_MANY_REDIRECTS"

\* C23: the reconciliation of one record is atomic: when a write of the
\* record fails, none of its writes is persisted; no record is left with its
\* newly created Product in place but without the 'new_product' Alert or
\* without a PriceHistory row.
C23_RecordAtomic ==
    [][\A p \in DOMAIN w :
          (Reconciling(p) /\ w'[p].i = w[p].i + 1 /\ w'[p].count = w[p].count) =>
             /\ ~(/\ w[p].pc = "alert"
                  /\ \E x \in products' : x.id = w[p].product)
             /\ ~(/\ w[p].pc = "history"
                  /\ HistoryOf(w[p].product) = {}
                  /\ \E x \in products' : x.id = w[p].product)]_vars

PriceAlertsIn(A, pid, old, new) ==
    {a \in A : /\ a.product = pid
               /\ a.alert_type \in {"price_increase", "price_decrease"}
               /\ a.old_value = old /\ a.new_value = new}

\* C24: every price change is alerted exactly once: when
\* analyze_price_changes has gone over a product whose two most recent rows
\* differ by 5% or more, there is one Alert of that change, whether this
\* was the first invocation (which creates it) or a later one with no scrape
\* in between (which creates none).
C24_AlertedExactlyOnce ==
    [][\A p \in DOMAIN w :
          (w[p].pc = "analyze" /\ w[p].todo # <<>> /\ w'[p] # w[p]) =>
             LET pid == Head(w[p].todo)
                 recent_prices == RecentPrices(pid) IN
             (/\ Len(recent_prices) = 2
              /\ ChangeAtLeast(recent_prices[1].price, recent_prices[2].price,
                               PriceThreshold)) =>
                 Cardinality(PriceAlertsIn(alerts', pid, recent_prices[2].price,
                                           recent_prices[1].price)) = 1]_vars

\* C25: when a scrape has reconciled a record, the Product of the record,
\* whether it existed before or not, has the record's price as
\* current_price, which is the price of its most recent PriceHistory row.
C25_CurrentPriceFollows ==
    [][\A p \in DOMAIN w :
          (w[p].pc = "history" /\ w'[p].count = w[p].count + 1) =>
             \E x \in products' :
                /\ x.id = w[p].product
                /\ x.current_price = w[p].all_products[w[p].i].price
                /\ x.current_price =
                      Latest({r \in priceHistory' : r.product = x.id}).price]_vars

\* C26: when save_products_to_database reconciles a record whose Product
\* exists, the lookup writes nothing and goes on to the price row without
\* an alert; the write of the price row leaves every Product and every
\* Alert as it was and adds at most the one PriceHistory row of the record.
C26_ExistingProductKept ==
    [][\A p \in DOMAIN w :
          /\ (/\ w[p].pc = "get_or_create" /\ w'[p] # w[p]
              /\ \E x \in products :
                    /\ x.competitor = w[p].competitor.id
                    /\ x.product_identifier =
                          w[p].all_products[w[p].i].product_identifier) =>
                 /\ UNCHANGED tables
                 /\ w'[p].pc = "history" \/ w'[p].i = w[p].i + 1
          /\ (w[p].pc = "history" /\ w'[p] # w[p]) =>
                 /\ UNCHANGED <<users, competitors, sessions, products, alerts>>
                 /\ priceHistory \subseteq priceHistory'
                 /\ Cardinality(priceHistory' \ priceHistory) <= 1
                 /\ \A r \in priceHistory' \ priceHistory :
                       /\ r.product = w[p].product
                       /\ r.price = w[p].all_products[w[p].i].price
                       /\ r.scrape_session_id = w[p].session.id]_vars

\* One scrape has reconciled two records of one identifier, the second
\* under another name and price: one Product, named and priced as the first
\* record, one alert, two price rows.
C26_Witness ==
    \E p \in DOMAIN w : \E x \in products :
        /\ w[p].pc = "finalize" /\ w[p].count = 2
        /\ w[p].all_products[1].product_identifier = w[p].all_products[2].product_identifier
        /\ w[p].all_products[1].name # w[p].all_products[2].name
        /\ products = {x}
        /\ x.name = w[p].all_products[1].name
        /\ Cardinality(HistoryOf(x.id)) = 2
        /\ Cardinality(alerts) = 1

C28_ProductsFound ==
    /\ \A s \in sessions :
          /\ s.status = "completed" =>
                s.products_found = Cardinality(SessionPrices(s.id))
          /\ s.status = "failed" => s.products_found = 0
    /\ \A p \in DOMAIN w :
          (w[p].pc = "returned" /\ w[p].result.kind = "scrape" /\ w[p].result.success) =>
             /\ SessionRow(w[p].session.id).status = "completed"
             /\ w[p].result.products_found = SessionRow(w[p].session.id).products_found

\* C30: every character of a batch handed to extraction is in the request
\* sent to the model, for a batch of any length up to the max_chars = 7500
\* of the scrape: no suffix of the batch is cut off before the call.
C30_WholeBatchSent ==
    \A p \in DOMAIN w :
        (w[p].pc = "sent" /\ w[p].fn = ScrapeExtraction) =>
            w[p].requested = w[p].text_batch

====
